---- MODULE Spec2Model ----
\* A model of the marker lint API: the thread-local context slot and the
\* context facade (marker_api/src/context.rs), spans (ast/common/span.rs),
\* the expression kinds, their literal narrowing and the precedence table
\* (ast/expr.rs), the lint-pass protocol (linter_api/src/lib.rs), and the
\* command line of cargo-marker (cargo-marker/src/cli.rs).
EXTENDS Integers, Sequences, FiniteSets, TLC

VARIABLES
    \* --- context.rs ---
    AST_CX,      \* thread -> the context in the thread-local slot, or None
    panicked,    \* thread -> TRUE once the thread has panicked
    op,          \* the last operation called, with its arguments
    trace,       \* the callbacks the last operation invoked, in order
    emitted,     \* number of diagnostics the drivers have received
    installed,   \* thread -> the context last passed to set_ast_cx on it, or None
    reinstalled, \* TRUE once set_ast_cx ran on a thread with another context in its slot
    \* --- span.rs ---
    span,        \* the Span under test: [source, start, end]
    fromFile,    \* <<b>>: what is_from_file last returned for span, else <<>>
    fromMacro,   \* <<b>>: what is_from_macro last returned for span, else <<>>
    emptyRes,    \* <<[start, end, val]>>: the last is_empty call, else <<>>
    \* --- expr.rs ---
    nodes,       \* the expression arena: node id -> [tag, kind, expr]
    cur,         \* the ExprKind last handed to LitExprKind::try_from, or NoExpr
    lit,         \* the Result that try_from returned for cur
    back,        \* the ExprKind that ExprKind::from returned for lit's value
    again,       \* the Result that try_from returned for back
    precA,       \* [kind, value]: a looked-up ExprPrecedence
    precB,       \* [kind, value]: a second looked-up ExprPrecedence
    \* --- lib.rs (LintPass) and the adapter's traversal ---
    ast,         \* the items of the crate in document order
    passes,      \* the installed lint passes: each the set of hooks it implements
    pos,         \* number of items the traversal has visited
    invoked,     \* the hook invocations made so far, in order
    effects,     \* the plugin-visible effects so far, in order
    traversals,  \* number of traversals started in this session
    \* --- cli.rs ---
    argv,        \* the command line after the program name
    cli          \* the MarkerCli that parse_from made of argv

cxVars == <<AST_CX, panicked, op, trace, emitted, installed, reinstalled>>
spanVars == <<span, fromFile, fromMacro, emptyRes>>
exprVars == <<nodes, cur, lit, back, again>>
precVars == <<precA, precB>>
passVars == <<ast, passes, pos, invoked, effects, traversals>>
cliVars == <<argv, cli>>
vars == <<cxVars, spanVars, exprVars, precVars, passVars, cliVars>>

None == "None"

-----------------------------------------------------------------------------
\* Bounds of the model

\* how many diagnostics the drivers receive before the model stops emitting
MaxDiags == 2
\* span positions range over 0..MaxPos
MaxPos == 3
\* number of expression nodes in the arena
MaxNodes == 3
\* number of items in the traversed crate
MaxItems == 3
\* number of hook calls made directly on a pass
MaxCalls == 2
\* number of command-line arguments after the program name
MaxArgs == 4

-----------------------------------------------------------------------------
\* ast/common/span.rs

SpanSources ==
    { [tag |-> "File",  file |-> "lib.rs", id |-> 0],
      [tag |-> "Macro", file |-> "",       id |-> 1],
      [tag |-> "Sugar", file |-> "lib.rs", id |-> 1] }

Positions == 0..MaxPos

is_from_file_file_only(s) == s.source.tag = "File"

is_from_file(s) == s.source.tag \in {"File", "Sugar"}

is_from_macro(s) == s.source.tag = "Macro"

is_empty(s) == s.start = s.end

-----------------------------------------------------------------------------
\* context.rs

Threads == {"t1", "t2"}
Contexts == {"cx1", "cx2"}

\* lint::Level and lint::MacroReport, as context.rs uses them
Levels == {"Allow", "Warn", "Deny", "Forbid"}
MacroReports == {"No", "All"}
Lints ==
    { [name |-> "lint_a", report_in_macro |-> "No"],
      [name |-> "lint_b", report_in_macro |-> "All"] }
EmissionNodes == {"item", "expr"}
\* the spans handed to emit_lint: one per provenance
LintSpans == { [source |-> src, start |-> 0, end |-> 1] : src \in SpanSources }
\* what the caller's decoration callback adds to the builder
Decorations == {"none", "note"}

\* the accessors that reach the context through with_cx, and the driver
\* callback each one's closure calls
Accessors ==
    { [fn |-> "Span::snippet",  callback |-> "span_snippet"],
      [fn |-> "Ident::name",    callback |-> "symbol_str"],
      [fn |-> "Ident::span",    callback |-> "span"],
      [fn |-> "ExprData::span", callback |-> "span"],
      [fn |-> "ExprData::ty",   callback |-> "expr_ty"] }

\* DriverCallbacks::call_lint_level_at: the driver answers lvl
call_lint_level_at(cx, lint, node, lvl) ==
    [call |-> "lint_level_at", cx |-> cx, lint |-> lint.name, node |-> node, ret |-> lvl]

\* AstContext::lint_level_at
lint_level_at(cx, lint, node, lvl) == <<call_lint_level_at(cx, lint, node, lvl)>>

\* DiagnosticBuilder::new(lint, node, msg, span)
NewDiagnostic(lint, node, msg, s) ==
    [lint |-> lint.name, node |-> node, msg |-> msg, span |-> s, parts |-> "none"]

\* the caller-supplied closure, applied to the builder
Decorate(builder, dec) == [builder EXCEPT !.parts = dec]

\* builder.emit(cx): AstContext::emit_diagnostic, DriverCallbacks::call_emit_diagnostic
emit_diagnostic(cx, diag) == <<[call |-> "emit_diag", cx |-> cx, diag |-> diag]>>

\* emit_lint without its macro check
emit_lint_no_macro_check(cx, lint, node, msg, s, lvl, dec) ==
    lint_level_at(cx, lint, node, lvl)
        \o (IF lvl # "Allow"
            THEN <<[call |-> "decorate", cx |-> cx]>>
                    \o emit_diagnostic(cx, Decorate(NewDiagnostic(lint, node, msg, s), dec))
            ELSE <<>>)

\* emit_lint that decorates and emits before it looks at the level
emit_lint_no_level_check(cx, lint, node, msg, s, lvl, dec) ==
    IF lint.report_in_macro = "No" /\ is_from_macro(s)
    THEN <<>>
    ELSE lint_level_at(cx, lint, node, lvl)
            \o <<[call |-> "decorate", cx |-> cx]>>
            \o emit_diagnostic(cx, Decorate(NewDiagnostic(lint, node, msg, s), dec))

\* emit_lint that hands the diagnostic to the driver before the caller's
\* closure has decorated it
emit_lint_emit_first(cx, lint, node, msg, s, lvl, dec) ==
    IF lint.report_in_macro = "No" /\ is_from_macro(s)
    THEN <<>>
    ELSE lint_level_at(cx, lint, node, lvl)
            \o (IF lvl # "Allow"
                THEN emit_diagnostic(cx, NewDiagnostic(lint, node, msg, s))
                        \o <<[call |-> "decorate", cx |-> cx]>>
                ELSE <<>>)

\* AstContext::emit_lint: the callbacks it invokes, in order, when the driver
\* answers lvl for (lint, node) and the caller's closure adds dec
emit_lint(cx, lint, node, msg, s, lvl, dec) ==
    IF lint.report_in_macro = "No" /\ is_from_macro(s)
    THEN <<>>
    ELSE lint_level_at(cx, lint, node, lvl)
            \o (IF lvl # "Allow"
                THEN <<[call |-> "decorate", cx |-> cx]>>
                        \o emit_diagnostic(cx, Decorate(NewDiagnostic(lint, node, msg, s), dec))
                ELSE <<>>)

Calls(tr, name) == { i \in 1..Len(tr) : tr[i].call = name }

\* with_cx that falls back to some context when the slot is empty
with_cx_or_default(slot, acc) ==
    LET cx == IF slot = None THEN "cx1" ELSE slot IN
    [panic |-> FALSE,
     calls |-> <<[call |-> "closure", cx |-> cx],
                 [call |-> acc.callback, cx |-> cx]>>]

\* with_cx: borrow the slot, expect() a context, run the closure with it
with_cx(slot, acc) ==
    IF slot = None
    THEN [panic |-> TRUE, calls |-> <<>>]
    ELSE [panic |-> FALSE,
          calls |-> <<[call |-> "closure", cx |-> slot],
                      [call |-> acc.callback, cx |-> slot]>>]

\* set_ast_cx that leaves a context that is already installed in place
set_ast_cx_keep_first(slot, cx) == IF slot = None THEN cx ELSE slot

\* set_ast_cx: cx.replace(Some(cx_static)) -- the value the slot holds afterwards
set_ast_cx(slot, cx) == cx

\* a slot that is one static shared by every thread
slot_store_global(slots, t, v) == [u \in Threads |-> v]

\* thread_local! AST_CX: AST_CX.with(..) reaches the slot of the calling thread
slot_store(slots, t, v) == [slots EXCEPT ![t] = v]

\* lint_level_at that answers Warn without regard to the driver
lint_level_at_result_warn(cx, lint, node, lvl) ==
    [calls |-> <<>>, ret |-> "Warn"]

\* AstContext::lint_level_at: the callbacks it invokes and the level it returns
lint_level_at_result(cx, lint, node, lvl) ==
    [calls |-> lint_level_at(cx, lint, node, lvl),
     ret |-> call_lint_level_at(cx, lint, node, lvl).ret]

\* diagnostic::Applicability, the variants snippet_with_applicability names
Applicabilities ==
    {"MachineApplicable", "MaybeIncorrect", "HasPlaceholders", "Unspecified"}

\* what the driver's span_snippet callback answers: no snippet, or the code
Snippets == {None, "code"}

\* the accessor Span::snippet
SpanSnippet == [fn |-> "Span::snippet", callback |-> "span_snippet"]

\* snippet_with_applicability that downgrades inside a macro without
\* looking at the applicability it was given
snippet_with_applicability_any_macro(slot, s, snip, default, app) ==
    LET a1 == IF is_from_macro(s) THEN "MaybeIncorrect" ELSE app
        r  == with_cx(slot, SpanSnippet)
    IN  IF r.panic
        THEN [panic |-> TRUE, calls |-> r.calls, app |-> a1, ret |-> None]
        ELSE IF snip # None
        THEN [panic |-> FALSE, calls |-> r.calls, app |-> a1, ret |-> snip]
        ELSE [panic |-> FALSE, calls |-> r.calls,
              app |-> IF a1 = "MachineApplicable" THEN "HasPlaceholders" ELSE a1,
              ret |-> default]

\* snippet_with_applicability that never marks placeholders
snippet_with_applicability_no_placeholders(slot, s, snip, default, app) ==
    LET a1 == IF app # "Unspecified" /\ is_from_macro(s) THEN "MaybeIncorrect" ELSE app
        r  == with_cx(slot, SpanSnippet)
    IN  IF r.panic
        THEN [panic |-> TRUE, calls |-> r.calls, app |-> a1, ret |-> None]
        ELSE [panic |-> FALSE, calls |-> r.calls, app |-> a1,
              ret |-> IF snip # None THEN snip ELSE default]

\* Span::snippet_with_applicability: first the macro rule on *applicability,
\* then self.snippet() through with_cx, and in the unwrap_or_else closure the
\* placeholder rule on the value *applicability holds by then
snippet_with_applicability(slot, s, snip, default, app) ==
    LET a1 == IF app # "Unspecified" /\ is_from_macro(s) THEN "MaybeIncorrect" ELSE app
        r  == with_cx(slot, SpanSnippet)
    IN  IF r.panic
        THEN [panic |-> TRUE, calls |-> r.calls, app |-> a1, ret |-> None]
        ELSE IF snip # None
        THEN [panic |-> FALSE, calls |-> r.calls, app |-> a1, ret |-> snip]
        ELSE [panic |-> FALSE, calls |-> r.calls,
              app |-> IF a1 = "MachineApplicable" THEN "HasPlaceholders" ELSE a1,
              ret |-> default]

CxInit ==
    /\ AST_CX = [t \in Threads |-> None]
    /\ panicked = [t \in Threads |-> FALSE]
    /\ op = [name |-> "none"]
    /\ trace = <<>>
    /\ emitted = 0
    /\ installed = [t \in Threads |-> None]
    /\ reinstalled = FALSE

SetAstCx(t, cx) ==
    /\ ~panicked[t]
    /\ op' = [name |-> "set_ast_cx", thread |-> t, cx |-> cx, before |-> AST_CX[t]]
    /\ AST_CX' = slot_store(AST_CX, t, set_ast_cx(AST_CX[t], cx))
    /\ installed' = [installed EXCEPT ![t] = cx]
    /\ reinstalled' = (reinstalled \/ AST_CX[t] \notin {None, cx})
    /\ trace' = <<>>
    /\ UNCHANGED <<panicked, emitted>>

WithCx(t, acc) ==
    LET r == with_cx(AST_CX[t], acc) IN
    /\ ~panicked[t]
    /\ op' = [name |-> "with_cx", thread |-> t, accessor |-> acc.fn, slot |-> AST_CX[t]]
    /\ panicked' = [panicked EXCEPT ![t] = r.panic]
    /\ trace' = r.calls
    /\ UNCHANGED <<AST_CX, emitted, installed, reinstalled>>

\* AstContext methods take the context by reference and never read the
\* slot: any thread that has not panicked may be the caller
LintLevelAt(cx, lint, node, lvl) ==
    /\ \E t \in Threads : ~panicked[t]
    /\ op' = [name |-> "lint_level_at", cx |-> cx, lint |-> lint,
              node |-> node, level |-> lvl,
              ret |-> lint_level_at_result(cx, lint, node, lvl).ret]
    /\ trace' = lint_level_at_result(cx, lint, node, lvl).calls
    /\ UNCHANGED <<AST_CX, panicked, emitted, installed, reinstalled>>

\* level is what the driver answers for (lint, node), asked or not
EmitLint(cx, lint, node, s, lvl, dec) ==
    LET tr == emit_lint(cx, lint, node, "msg", s, lvl, dec) IN
    /\ \E t \in Threads : ~panicked[t]
    /\ emitted < MaxDiags
    /\ op' = [name |-> "emit_lint", cx |-> cx, lint |-> lint,
              node |-> node, span |-> s, level |-> lvl, decoration |-> dec]
    /\ trace' = tr
    /\ emitted' = emitted + Cardinality(Calls(tr, "emit_diag"))
    /\ UNCHANGED <<AST_CX, panicked, installed, reinstalled>>

\* Span::snippet_with_applicability on thread t; snip is what the driver's
\* span_snippet callback answers for the span, asked or not
SnippetWithApplicability(t, s, app, snip) ==
    LET r == snippet_with_applicability(AST_CX[t], s, snip, "..", app) IN
    /\ ~panicked[t]
    /\ op' = [name |-> "snippet_with_applicability", thread |-> t, span |-> s,
              slot |-> AST_CX[t], snippet |-> snip,
              app_in |-> app, app_out |-> r.app, ret |-> r.ret]
    /\ panicked' = [panicked EXCEPT ![t] = r.panic]
    /\ trace' = r.calls
    /\ UNCHANGED <<AST_CX, emitted, installed, reinstalled>>

-----------------------------------------------------------------------------
\* ast/common/span.rs: a span and its setters

\* Span::set_start
set_start(s, start) == [s EXCEPT !.start = start]

\* Span::set_end
set_end(s, end) == [s EXCEPT !.end = end]

\* the spans the host creates: start <= end
SpanInit ==
    /\ span \in { [source |-> src, start |-> a, end |-> b] :
                    src \in SpanSources, a \in Positions, b \in Positions }
    /\ span.start <= span.end
    /\ fromFile = <<>>
    /\ fromMacro = <<>>
    /\ emptyRes = <<>>

SetStart(v) ==
    /\ span' = set_start(span, v)
    /\ UNCHANGED <<fromFile, fromMacro, emptyRes>>

SetEnd(v) ==
    /\ span' = set_end(span, v)
    /\ UNCHANGED <<fromFile, fromMacro, emptyRes>>

IsFromFile ==
    /\ fromFile' = <<is_from_file(span)>>
    /\ UNCHANGED <<span, fromMacro, emptyRes>>

IsFromMacro ==
    /\ fromMacro' = <<is_from_macro(span)>>
    /\ UNCHANGED <<span, fromFile, emptyRes>>

IsEmpty ==
    /\ emptyRes' = <<[start |-> span.start, end |-> span.end, val |-> is_empty(span)]>>
    /\ UNCHANGED <<span, fromFile, fromMacro>>

-----------------------------------------------------------------------------
\* ast/expr.rs: ExprKind, LitExprKind and the conversions between them

LitExprTags == {"IntLit", "FloatLit", "StrLit", "CharLit", "BoolLit"}

ExprTags ==
    LitExprTags \cup
    { "Block", "Closure", "UnaryOp", "Ref", "BinaryOp", "QuestionMark", "Assign",
      "As", "Path", "Call", "Method", "Array", "Tuple", "Ctor", "Range", "Index",
      "Field", "If", "Let", "Match", "Break", "Return", "Continue", "For", "Loop",
      "While", "Await", "Unstable" }

\* the operators of a UnaryOpExpr
UnaryOpKinds == {"Neg", "Not", "Deref"}

LitVariants == {"Int", "Float", "Str", "Char", "Bool", "UnaryOp"}

NoExpr == [tag |-> "none", node |-> 0]
NoResult == [ok |-> FALSE, called |-> FALSE]

\* Result<LitExprKind, ()>
Ok(v) == [ok |-> TRUE, called |-> TRUE, val |-> v]
Err == [ok |-> FALSE, called |-> TRUE]

\* ExprData::as_expr: a node wrapped in its own ExprKind variant
as_expr(arena, n) == [tag |-> arena[n].tag, node |-> n]

\* UnaryOpExpr::expr(): the operand of unary operation n
operand(arena, n) == as_expr(arena, arena[n].expr)

\* impl From<LitExprKind> for ExprKind, returning the operand of a UnaryOp
from_unwrapped(arena, l) ==
    CASE l.variant = "Int"     -> [tag |-> "IntLit",   node |-> l.node]
      [] l.variant = "Float"   -> [tag |-> "FloatLit", node |-> l.node]
      [] l.variant = "Str"     -> [tag |-> "StrLit",   node |-> l.node]
      [] l.variant = "Char"    -> [tag |-> "CharLit",  node |-> l.node]
      [] l.variant = "Bool"    -> [tag |-> "BoolLit",  node |-> l.node]
      [] l.variant = "UnaryOp" -> operand(arena, l.node)

\* from whose Char arm builds a string literal
from_char_as_str(arena, l) ==
    CASE l.variant = "Int"     -> [tag |-> "IntLit",   node |-> l.node]
      [] l.variant = "Float"   -> [tag |-> "FloatLit", node |-> l.node]
      [] l.variant = "Str"     -> [tag |-> "StrLit",   node |-> l.node]
      [] l.variant = "Char"    -> [tag |-> "StrLit",   node |-> l.node]
      [] l.variant = "Bool"    -> [tag |-> "BoolLit",  node |-> l.node]
      [] l.variant = "UnaryOp" -> [tag |-> "UnaryOp",  node |-> l.node]

\* impl From<LitExprKind> for ExprKind
from(arena, l) ==
    CASE l.variant = "Int"     -> [tag |-> "IntLit",   node |-> l.node]
      [] l.variant = "Float"   -> [tag |-> "FloatLit", node |-> l.node]
      [] l.variant = "Str"     -> [tag |-> "StrLit",   node |-> l.node]
      [] l.variant = "Char"    -> [tag |-> "CharLit",  node |-> l.node]
      [] l.variant = "Bool"    -> [tag |-> "BoolLit",  node |-> l.node]
      [] l.variant = "UnaryOp" -> [tag |-> "UnaryOp",  node |-> l.node]

RECURSIVE try_from(_, _)

\* try_from that accepts every negation without looking at its operand
try_from_any_neg(arena, e) ==
    CASE e.tag = "IntLit"   -> Ok([variant |-> "Int",   node |-> e.node])
      [] e.tag = "FloatLit" -> Ok([variant |-> "Float", node |-> e.node])
      [] e.tag = "StrLit"   -> Ok([variant |-> "Str",   node |-> e.node])
      [] e.tag = "CharLit"  -> Ok([variant |-> "Char",  node |-> e.node])
      [] e.tag = "BoolLit"  -> Ok([variant |-> "Bool",  node |-> e.node])
      [] e.tag = "UnaryOp"  ->
            IF arena[e.node].kind = "Neg"
            THEN Ok([variant |-> "UnaryOp", node |-> e.node])
            ELSE Err
      [] OTHER -> Err

\* try_from that accepts every unary operation over a literal
try_from_any_kind(arena, e) ==
    CASE e.tag = "IntLit"   -> Ok([variant |-> "Int",   node |-> e.node])
      [] e.tag = "FloatLit" -> Ok([variant |-> "Float", node |-> e.node])
      [] e.tag = "StrLit"   -> Ok([variant |-> "Str",   node |-> e.node])
      [] e.tag = "CharLit"  -> Ok([variant |-> "Char",  node |-> e.node])
      [] e.tag = "BoolLit"  -> Ok([variant |-> "Bool",  node |-> e.node])
      [] e.tag = "UnaryOp"  ->
            IF try_from(arena, operand(arena, e.node)).ok
            THEN Ok([variant |-> "UnaryOp", node |-> e.node])
            ELSE Err
      [] OTHER -> Err

\* impl TryFrom<ExprKind> for LitExprKind
try_from(arena, e) ==
    CASE e.tag = "IntLit"   -> Ok([variant |-> "Int",   node |-> e.node])
      [] e.tag = "FloatLit" -> Ok([variant |-> "Float", node |-> e.node])
      [] e.tag = "StrLit"   -> Ok([variant |-> "Str",   node |-> e.node])
      [] e.tag = "CharLit"  -> Ok([variant |-> "Char",  node |-> e.node])
      [] e.tag = "BoolLit"  -> Ok([variant |-> "Bool",  node |-> e.node])
      [] e.tag = "UnaryOp"  ->
            IF arena[e.node].kind = "Neg" /\ try_from(arena, operand(arena, e.node)).ok
            THEN Ok([variant |-> "UnaryOp", node |-> e.node])
            ELSE Err
      [] OTHER -> Err

\* test_expr_struct_size: the size asserted for the node type of each
\* ExprKind variant (variant V references the node type VExpr)
GoldenSizes ==
    [ IntLit |-> 40, FloatLit |-> 32, StrLit |-> 48, CharLit |-> 24, BoolLit |-> 24,
      Block |-> 96, Closure |-> 72, UnaryOp |-> 40, Ref |-> 40, BinaryOp |-> 56,
      QuestionMark |-> 32, Assign |-> 80, As |-> 48, Path |-> 96, Call |-> 48,
      Method |-> 80, Array |-> 56, Tuple |-> 32, Ctor |-> 136, Range |-> 72,
      Index |-> 48, Field |-> 48, If |-> 72, Let |-> 72, Match |-> 48,
      Break |-> 72, Return |-> 40, Continue |-> 48, For |-> 112, Loop |-> 56,
      While |-> 72, Unstable |-> 24 ]

\* the arena starts with one expression that is not a unary operation
ExprInit ==
    /\ nodes \in { <<[tag |-> tg, kind |-> "none", expr |-> 0]>> :
                    tg \in ExprTags \ {"UnaryOp"} }
    /\ cur = NoExpr
    /\ lit = NoResult
    /\ back = NoExpr
    /\ again = NoResult

\* the host builds a unary operation over an expression of the arena
NewUnaryOp(kind, n) ==
    /\ Len(nodes) < MaxNodes
    /\ nodes' = Append(nodes, [tag |-> "UnaryOp", kind |-> kind, expr |-> n])
    /\ cur' = NoExpr
    /\ lit' = NoResult
    /\ back' = NoExpr
    /\ again' = NoResult

\* LitExprKind::try_from(n.as_expr())
TryFromExpr(n) ==
    /\ cur' = as_expr(nodes, n)
    /\ lit' = try_from(nodes, as_expr(nodes, n))
    /\ back' = NoExpr
    /\ again' = NoResult
    /\ UNCHANGED nodes

\* ExprKind::from(l) for the literal kind l that try_from returned
FromLit ==
    /\ lit.ok
    /\ back' = from(nodes, lit.val)
    /\ again' = NoResult
    /\ UNCHANGED <<nodes, cur, lit>>

\* LitExprKind::try_from(ExprKind::from(l)): the widened value narrowed again
TryFromBack ==
    /\ back # NoExpr
    /\ again' = try_from(nodes, back)
    /\ UNCHANGED <<nodes, cur, lit, back>>

-----------------------------------------------------------------------------
\* ast/expr.rs: the ExprPrecedence table

\* the step between two bands: 0x0100_0000
BandUnit == 16777216

\* the named variants of ExprPrecedence (Unstable(i32) carries its own value)
PrecedenceKinds ==
    { "Lit", "Block", "Ctor", "Assign", "For", "Loop", "While", "Await", "Path",
      "Method", "Call", "If", "Let", "Match", "Field", "Fn", "Index",
      "QuestionMark", "Neg", "Not", "Deref", "Ref", "As", "Mul", "Div", "Rem",
      "Add", "Sub", "Shr", "Shl", "BitAnd", "BitXor", "BitOr", "Comparison",
      "And", "Or", "Range", "AssignOp", "Closure", "Break", "Return", "Continue" }

\* the discriminants of the enum: 0xBB00_000i is BB * BandUnit + i
PrecedenceTable ==
    [ Lit |-> 20 * BandUnit,       Block |-> 20 * BandUnit + 1,
      Ctor |-> 20 * BandUnit + 2,  Assign |-> 20 * BandUnit + 3,
      For |-> 20 * BandUnit + 4,   Loop |-> 20 * BandUnit + 5,
      While |-> 20 * BandUnit + 6, Await |-> 20 * BandUnit + 7,
      Path |-> 19 * BandUnit,
      Method |-> 18 * BandUnit,    Call |-> 18 * BandUnit + 1,
      If |-> 18 * BandUnit + 2,    Let |-> 18 * BandUnit + 3,
      Match |-> 18 * BandUnit + 4,
      Field |-> 17 * BandUnit,
      Fn |-> 16 * BandUnit,        Index |-> 16 * BandUnit + 1,
      QuestionMark |-> 15 * BandUnit,
      Neg |-> 14 * BandUnit,       Not |-> 14 * BandUnit + 1,
      Deref |-> 14 * BandUnit + 2, Ref |-> 14 * BandUnit + 3,
      As |-> 13 * BandUnit,
      Mul |-> 12 * BandUnit,       Div |-> 12 * BandUnit + 1,
      Rem |-> 12 * BandUnit + 2,
      Add |-> 11 * BandUnit,       Sub |-> 11 * BandUnit + 1,
      Shr |-> 10 * BandUnit,       Shl |-> 10 * BandUnit + 1,
      BitAnd |-> 9 * BandUnit,
      BitXor |-> 8 * BandUnit,
      BitOr |-> 7 * BandUnit,
      Comparison |-> 6 * BandUnit,
      And |-> 5 * BandUnit,
      Or |-> 4 * BandUnit,
      Range |-> 3 * BandUnit,
      AssignOp |-> 2 * BandUnit,
      Closure |-> BandUnit,        Break |-> BandUnit + 1,
      Return |-> BandUnit + 2,     Continue |-> BandUnit + 3 ]

\* the table with Closure written into band 0x15 instead of 0x01
ExprPrecedence_closure_0x15(k) ==
    IF k = "Closure" THEN 21 * BandUnit ELSE PrecedenceTable[k]

\* ExprPrecedence::k as u32
ExprPrecedence(k) == PrecedenceTable[k]

\* the band of a precedence value: its bits above the low 24
Band(v) == v \div BandUnit

NoPrecedence == [kind |-> "none", value |-> 0]

PrecInit ==
    /\ precA = NoPrecedence
    /\ precB = NoPrecedence

\* ExprData::precedence() of an expression of kind k, kept as the first value
PrecedenceA(k) ==
    /\ precA' = [kind |-> k, value |-> ExprPrecedence(k)]
    /\ UNCHANGED precB

\* ExprData::precedence() of an expression of kind k, kept as the second value
PrecedenceB(k) ==
    /\ precB' = [kind |-> k, value |-> ExprPrecedence(k)]
    /\ UNCHANGED precA

-----------------------------------------------------------------------------
\* linter_api/src/lib.rs: the LintPass hooks, and one session's traversal

\* for_each_lint_pass_fn: the functions of LintPass that take &mut self
Hooks ==
    {"check_item", "check_mod", "check_extern_crate", "check_use_decl",
     "check_static_item"}

ItemCategories == {"mod", "extern_crate", "use_decl", "static_item"}

\* the hook whose argument type is the item type of category c
HookFor(c) ==
    CASE c = "mod"          -> "check_mod"
      [] c = "extern_crate" -> "check_extern_crate"
      [] c = "use_decl"     -> "check_use_decl"
      [] c = "static_item"  -> "check_static_item"

\* the passes of the session, in the order they were installed
PassOrder == <<"p1", "p2">>
Passes == {"p1", "p2"}

\* what a pass may implement: nothing, one hook, or every hook
Implementations == {{}} \cup {{h} : h \in Hooks} \cup {Hooks}

\* a default hook that reports something
default_hook_reports(p, h, i) == <<[pass |-> p, hook |-> h, node |-> i]>>

\* decl_lint_pass_fn: the default body of a &mut self function is {}
default_hook(p, h, i) == <<>>

\* a hook the plugin implemented: the plugin sees the call
implemented_hook(p, h, i) == <<[pass |-> p, hook |-> h, node |-> i]>>

\* one call of hook h of pass p on node i: the plugin-visible effects
call_hook(impl, p, h, i) ==
    IF h \in impl[p] THEN implemented_hook(p, h, i) ELSE default_hook(p, h, i)

RECURSIVE ForEachPass(_, _, _, _)
\* hook h of every pass from the k-th on, in installation order, on node i:
\* [calls, effects]
ForEachPass(impl, k, h, i) ==
    IF k > Len(PassOrder)
    THEN [calls |-> <<>>, effects |-> <<>>]
    ELSE LET rest == ForEachPass(impl, k + 1, h, i)
             p == PassOrder[k]
         IN [calls |-> <<[pass |-> p, hook |-> h, node |-> i]>> \o rest.calls,
             effects |-> call_hook(impl, p, h, i) \o rest.effects]

\* the adapter visiting item i: check_item of every pass, then the hook of
\* the item's category of every pass
VisitItem(impl, items, i) ==
    LET a == ForEachPass(impl, 1, "check_item", i)
        b == ForEachPass(impl, 1, HookFor(items[i]), i)
    IN [calls |-> a.calls \o b.calls, effects |-> a.effects \o b.effects]

RECURSIVE SeqsUpTo(_, _)
\* the sequences over S of length at most n
SeqsUpTo(S, n) ==
    IF n = 0 THEN {<<>>}
    ELSE LET shorter == SeqsUpTo(S, n - 1)
         IN shorter \cup { Append(s, x) : s \in shorter, x \in S }

\* a crate: its root module, then up to MaxItems items in document order
PassInit ==
    /\ ast \in { <<"mod">> \o s : s \in SeqsUpTo(ItemCategories, MaxItems) }
    /\ passes \in [Passes -> Implementations]
    /\ pos = 0
    /\ invoked = <<>>
    /\ effects = <<>>
    /\ traversals = 0

\* the adapter starts the session's traversal
StartTraversal ==
    /\ traversals = 0
    /\ traversals' = 1
    /\ UNCHANGED <<ast, passes, pos, invoked, effects>>

\* the adapter visits the next item in document order
Visit ==
    /\ traversals = 1
    /\ pos < Len(ast)
    /\ LET r == VisitItem(passes, ast, pos + 1) IN
        /\ invoked' = invoked \o r.calls
        /\ effects' = effects \o r.effects
    /\ pos' = pos + 1
    /\ UNCHANGED <<ast, passes, traversals>>

\* for_each_lint_pass_fn: every function of LintPass, with its receiver
LintPassFns ==
    { [name |-> "registered_lints",   receiver |-> "&self"],
      [name |-> "check_item",         receiver |-> "&mut self"],
      [name |-> "check_mod",          receiver |-> "&mut self"],
      [name |-> "check_extern_crate", receiver |-> "&mut self"],
      [name |-> "check_use_decl",     receiver |-> "&mut self"],
      [name |-> "check_static_item",  receiver |-> "&mut self"] }

\* decl_lint_pass_fn with the body {} in both of its arms
decl_lint_pass_fn_both_default(f) ==
    [name |-> f.name, has_default |-> TRUE]

\* decl_lint_pass_fn: a &self function is declared without a body, a
\* &mut self function with the body {}
decl_lint_pass_fn(f) ==
    [name |-> f.name, has_default |-> f.receiver = "&mut self"]

\* the functions of the trait that an implementation may leave out
DefaultedFns == { f.name : f \in { g \in LintPassFns : decl_lint_pass_fn(g).has_default } }

\* a pass and one item of some category
HookInit ==
    /\ ast \in { <<c>> : c \in ItemCategories }
    /\ passes \in [Passes -> Implementations]
    /\ pos = 0
    /\ invoked = <<>>
    /\ effects = <<>>
    /\ traversals = 0

\* hook h of pass p called on item i; a hook the pass implements reports
\* one diagnostic through the context it is given
CallHook(p, h, i) ==
    LET r == call_hook(passes, p, h, i) IN
    /\ Len(invoked) < MaxCalls
    /\ h \in DefaultedFns \/ h \in passes[p]
    /\ h \in {"check_item", HookFor(ast[i])}
    /\ invoked' = Append(invoked, [pass |-> p, hook |-> h, node |-> i])
    /\ effects' = effects \o r
    /\ emitted' = emitted + Len(r)
    /\ UNCHANGED <<ast, passes, pos, traversals>>
    /\ UNCHANGED <<AST_CX, panicked, op, trace, installed, reinstalled>>

-----------------------------------------------------------------------------
\* cargo-marker/src/cli.rs: the command line, as the clap derive attributes
\* of MarkerCli, CliCommand, CheckArgs and SetupArgs declare it

\* enum CliCommand: the token that selects a subcommand and its variant
CliCommands ==
    { [token |-> "check",      variant |-> "Check",     args |-> "CheckArgs"],
      [token |-> "setup",      variant |-> "Setup",     args |-> "SetupArgs"],
      [token |-> "test-setup", variant |-> "TestSetup", args |-> "CheckArgs"] }
CommandTokens == { c.token : c \in CliCommands }
CommandOf(tok) == CHOOSE c \in CliCommands : c.token = tok

\* the flags of CheckArgs and of SetupArgs (-l/--lints takes a value and is
\* left out of the command lines drawn here)
ArgFlags ==
    [CheckArgs |-> {"--forward-rust-flags"},
     SetupArgs |-> {"--auto-install-toolchain", "--forward-rust-flags"}]

\* #[clap(last = true)] cargo_args: CheckArgs has it, SetupArgs has no
\* positional at all
HasCargoArgs == [CheckArgs |-> TRUE, SetupArgs |-> FALSE]

\* the words a command line is made of
Tokens == CommandTokens \cup {"--forward-rust-flags", "--", "ducks", "penguins"}
ArgVectors == UNION { [1..n -> Tokens] : n \in 0..MaxArgs }

\* the index of the first element of a that is in S, or Len(a) + 1
FirstIndex(a, S) ==
    IF \E i \in 1..Len(a) : a[i] \in S
    THEN CHOOSE i \in 1..Len(a) : a[i] \in S /\ \A j \in 1..(i - 1) : a[j] \notin S
    ELSE Len(a) + 1

\* the arguments of one (sub)command of kind k: flags up to the first `--`,
\* each at most once; everything after that `--` is the value of the
\* last = true positional, if the command has one
parse_args(a, k) ==
    LET e    == FirstIndex(a, {"--"})
        opts == SubSeq(a, 1, e - 1)
        rest == SubSeq(a, e + 1, Len(a))
    IN  [ok |-> /\ \A i \in 1..Len(opts) : opts[i] \in ArgFlags[k]
                /\ \A i, j \in 1..Len(opts) : opts[i] = opts[j] => i = j
                /\ HasCargoArgs[k] \/ rest = <<>>,
         forward_rust_flags |-> \E i \in 1..Len(opts) : opts[i] = "--forward-rust-flags",
         cargo_args |-> rest]

NoCommand == [name |-> None, forward_rust_flags |-> FALSE, cargo_args |-> <<>>]
NoArgs == [forward_rust_flags |-> FALSE, cargo_args |-> <<>>]
Unparsed == [state |-> "unparsed", command |-> NoCommand, check_args |-> NoArgs]
UsageError == [state |-> "error", command |-> NoCommand, check_args |-> NoArgs]

\* parse_from in which cargo_args is one argument shared by MarkerCli and
\* its subcommands
parse_from_global_cargo_args(a) ==
    LET e == FirstIndex(a, {"--"})
        c == FirstIndex(a, CommandTokens)
    IN  IF c < e
        THEN LET cmd == CommandOf(a[c])
                 top == parse_args(SubSeq(a, 1, c - 1), "CheckArgs")
                 sub == parse_args(SubSeq(a, c + 1, Len(a)), cmd.args)
             IN  IF top.ok /\ sub.ok
                 THEN [state |-> "ok",
                       command |-> [name |-> cmd.variant,
                                    forward_rust_flags |-> sub.forward_rust_flags,
                                    cargo_args |-> sub.cargo_args],
                       check_args |-> [forward_rust_flags |-> top.forward_rust_flags,
                                       cargo_args |-> sub.cargo_args]]
                 ELSE UsageError
        ELSE LET top == parse_args(a, "CheckArgs")
             IN  IF top.ok
                 THEN [state |-> "ok",
                       command |-> NoCommand,
                       check_args |-> [forward_rust_flags |-> top.forward_rust_flags,
                                       cargo_args |-> top.cargo_args]]
                 ELSE UsageError

\* MarkerCli::parse_from: a subcommand token before the first `--` selects
\* the command and hands it the arguments that follow; what precedes it, or
\* the whole line when there is none, is the flattened top-level CheckArgs
parse_from(a) ==
    LET e == FirstIndex(a, {"--"})
        c == FirstIndex(a, CommandTokens)
    IN  IF c < e
        THEN LET cmd == CommandOf(a[c])
                 top == parse_args(SubSeq(a, 1, c - 1), "CheckArgs")
                 sub == parse_args(SubSeq(a, c + 1, Len(a)), cmd.args)
             IN  IF top.ok /\ sub.ok
                 THEN [state |-> "ok",
                       command |-> [name |-> cmd.variant,
                                    forward_rust_flags |-> sub.forward_rust_flags,
                                    cargo_args |-> sub.cargo_args],
                       check_args |-> [forward_rust_flags |-> top.forward_rust_flags,
                                       cargo_args |-> top.cargo_args]]
                 ELSE UsageError
        ELSE LET top == parse_args(a, "CheckArgs")
             IN  IF top.ok
                 THEN [state |-> "ok",
                       command |-> NoCommand,
                       check_args |-> [forward_rust_flags |-> top.forward_rust_flags,
                                       cargo_args |-> top.cargo_args]]
                 ELSE UsageError

\* the command lines cargo-marker may be started with
CliInit ==
    /\ argv \in ArgVectors
    /\ cli = Unparsed

\* MarkerCli::parse_from(argv)
ParseFrom ==
    /\ cli.state = "unparsed"
    /\ cli' = parse_from(argv)
    /\ UNCHANGED argv

-----------------------------------------------------------------------------
\* The specifications: each one runs one part of the API and keeps the
\* state of the other parts as it is after construction.

CxParked ==
    /\ AST_CX = [t \in Threads |-> None]
    /\ panicked = [t \in Threads |-> FALSE]
    /\ op = [name |-> "none"]
    /\ trace = <<>>
    /\ emitted = 0
    /\ installed = [t \in Threads |-> None]
    /\ reinstalled = FALSE

SpanParked ==
    /\ span = [source |-> [tag |-> "File", file |-> "lib.rs", id |-> 0],
               start |-> 0, end |-> 0]
    /\ fromFile = <<>>
    /\ fromMacro = <<>>
    /\ emptyRes = <<>>

ExprParked ==
    /\ nodes = <<>>
    /\ cur = NoExpr
    /\ lit = NoResult
    /\ back = NoExpr
    /\ again = NoResult

PrecParked ==
    /\ precA = NoPrecedence
    /\ precB = NoPrecedence

PassParked ==
    /\ ast = <<>>
    /\ passes = [p \in Passes |-> {}]
    /\ pos = 0
    /\ invoked = <<>>
    /\ effects = <<>>
    /\ traversals = 0

CliParked ==
    /\ argv = <<>>
    /\ cli = Unparsed

\* what a step of one part leaves alone
CxFrame == UNCHANGED <<spanVars, exprVars, precVars, passVars, cliVars>>
SpanFrame == UNCHANGED <<cxVars, exprVars, precVars, passVars, cliVars>>
ExprFrame == UNCHANGED <<cxVars, spanVars, precVars, passVars, cliVars>>
PrecFrame == UNCHANGED <<cxVars, spanVars, exprVars, passVars, cliVars>>
PassFrame == UNCHANGED <<cxVars, spanVars, exprVars, precVars, cliVars>>
CliFrame == UNCHANGED <<cxVars, spanVars, exprVars, precVars, passVars>>

\* the context slot and the context facade
InitCx == CxInit /\ SpanParked /\ ExprParked /\ PrecParked /\ PassParked /\ CliParked
NextCx ==
    \/ \E t \in Threads, cx \in Contexts : SetAstCx(t, cx) /\ CxFrame
    \/ \E t \in Threads, acc \in Accessors : WithCx(t, acc) /\ CxFrame
    \/ \E cx \in Contexts, lint \in Lints, node \in EmissionNodes, lvl \in Levels :
            LintLevelAt(cx, lint, node, lvl) /\ CxFrame
    \/ \E cx \in Contexts, lint \in Lints, node \in EmissionNodes,
          s \in LintSpans, lvl \in Levels, dec \in Decorations :
            EmitLint(cx, lint, node, s, lvl, dec) /\ CxFrame
    \/ \E t \in Threads, s \in LintSpans, app \in Applicabilities, snip \in Snippets :
            SnippetWithApplicability(t, s, app, snip) /\ CxFrame
SpecCx == InitCx /\ [][NextCx]_vars

\* one span
InitSpan == CxParked /\ SpanInit /\ ExprParked /\ PrecParked /\ PassParked /\ CliParked
NextSpan ==
    \/ \E v \in Positions : SetStart(v) /\ SpanFrame
    \/ \E v \in Positions : SetEnd(v) /\ SpanFrame
    \/ IsFromFile /\ SpanFrame
    \/ IsFromMacro /\ SpanFrame
    \/ IsEmpty /\ SpanFrame
SpecSpan == InitSpan /\ [][NextSpan]_vars

\* the expression arena and the literal conversions
InitExpr == CxParked /\ SpanParked /\ ExprInit /\ PrecParked /\ PassParked /\ CliParked
NextExpr ==
    \/ \E kind \in UnaryOpKinds, n \in 1..Len(nodes) : NewUnaryOp(kind, n) /\ ExprFrame
    \/ \E n \in 1..Len(nodes) : TryFromExpr(n) /\ ExprFrame
    \/ FromLit /\ ExprFrame
    \/ TryFromBack /\ ExprFrame
SpecExpr == InitExpr /\ [][NextExpr]_vars

\* the precedence table
InitPrec == CxParked /\ SpanParked /\ ExprParked /\ PrecInit /\ PassParked /\ CliParked
NextPrec ==
    \/ \E k \in PrecedenceKinds : PrecedenceA(k) /\ PrecFrame
    \/ \E k \in PrecedenceKinds : PrecedenceB(k) /\ PrecFrame
SpecPrec == InitPrec /\ [][NextPrec]_vars

\* one session's traversal
InitPass == CxParked /\ SpanParked /\ ExprParked /\ PrecParked /\ PassInit /\ CliParked
NextPass ==
    \/ StartTraversal /\ PassFrame
    \/ Visit /\ PassFrame
SpecPass == InitPass /\ [][NextPass]_vars

\* hooks called directly on a pass
InitHook == CxParked /\ SpanParked /\ ExprParked /\ PrecParked /\ HookInit /\ CliParked
NextHook ==
    \E p \in Passes, h \in Hooks, i \in 1..Len(ast) :
        CallHook(p, h, i) /\ UNCHANGED <<spanVars, exprVars, precVars, cliVars>>
SpecHook == InitHook /\ [][NextHook]_vars

\* one command line
InitCli == CxParked /\ SpanParked /\ ExprParked /\ PrecParked /\ PassParked /\ CliInit
NextCli == ParseFrom /\ CliFrame
SpecCli == InitCli /\ [][NextCli]_vars

-----------------------------------------------------------------------------
\* Properties of the context facade and the context slot (SpecCx)

\* the last operation was emit_lint, and it asked the driver, which answered lvl
Resolved(lvl) ==
    /\ op.name = "emit_lint"
    /\ \E i \in 1..Len(trace) : trace[i].call = "lint_level_at" /\ trace[i].ret = lvl

\* C1: emit_lint called with a lint whose macro-report policy is No and a
\* span whose provenance is Macro invokes no emit_diag callback, whatever
\* level the driver would resolve for that lint and node.
C1_MacroSuppressed ==
    (/\ op.name = "emit_lint"
     /\ op.lint.report_in_macro = "No"
     /\ op.span.source.tag = "Macro")
        => Calls(trace, "emit_diag") = {}

\* emit_lint ran on a macro span with a never-in-macros lint that the driver
\* would deny, and nothing was called
C1_Witness ==
    /\ op.name = "emit_lint"
    /\ op.lint.report_in_macro = "No"
    /\ op.span.source.tag = "Macro"
    /\ op.level = "Deny"
    /\ trace = <<>>

\* C2: when the driver resolves the lint's level at the node to Allow,
\* emit_lint invokes neither emit_diag nor the caller's decoration callback.
C2_AllowSilent ==
    Resolved("Allow")
        => Calls(trace, "emit_diag") = {} /\ Calls(trace, "decorate") = {}

\* emit_lint passed the macro check on a macro span, the driver answered
\* Allow, and the level lookup is all that happened
C2_Witness ==
    /\ Resolved("Allow")
    /\ op.lint.report_in_macro = "All"
    /\ op.span.source.tag = "Macro"
    /\ Len(trace) = 1

\* C3: an accessor that goes through with_cx on a thread whose slot holds no
\* context panics, and runs neither the closure nor any driver callback.
C3_NoContextPanics ==
    (op.name = "with_cx" /\ op.slot = None)
        => panicked[op.thread] /\ trace = <<>>

\* Span::snippet was called on a thread with an empty slot while the other
\* thread had a context installed
C3_Witness ==
    /\ op.name = "with_cx"
    /\ op.slot = None
    /\ op.accessor = "Span::snippet"
    /\ panicked[op.thread]
    /\ \E t \in Threads : AST_CX[t] # None

\* C4: set_ast_cx on a thread whose slot already holds a context is
\* rejected: the thread panics and the slot keeps the context it held.
C4_NestedInstallRejected ==
    (op.name = "set_ast_cx" /\ op.before # None)
        => panicked[op.thread] /\ AST_CX[op.thread] = op.before

\* C13: lint_level_at is a pure query: it returns exactly the level the
\* driver's lint_level_at callback answers for (lint, node), invokes that
\* callback and no other (never emit_diag), and leaves the context slot of
\* every thread as it was.
C13_LintLevelAtPure ==
    [][op'.name = "lint_level_at"
        => /\ op'.ret = op'.level
           /\ trace' = <<[call |-> "lint_level_at", cx |-> op'.cx,
                          lint |-> op'.lint.name, node |-> op'.node,
                          ret |-> op'.level]>>
           /\ AST_CX' = AST_CX
           /\ emitted' = emitted
           /\ panicked' = panicked]_vars

\* lint_level_at answered Deny through cx2 while a thread had cx1 installed
\* and a diagnostic had been emitted before
C13_Witness ==
    /\ op.name = "lint_level_at"
    /\ op.cx = "cx2"
    /\ op.level = "Deny"
    /\ op.ret = "Deny"
    /\ Len(trace) = 1
    /\ AST_CX["t1"] = "cx1"
    /\ emitted = 1

\* the last operation was snippet_with_applicability, and it returned
SnippetReturned ==
    /\ op.name = "snippet_with_applicability"
    /\ ~panicked[op.thread]

\* C14: snippet_with_applicability never changes an applicability of
\* Unspecified: Unspecified on entry is Unspecified on return, for a file, a
\* sugar and a macro span, with the snippet available or not.
C14_UnspecifiedKept ==
    (op.name = "snippet_with_applicability" /\ op.app_in = "Unspecified")
        => op.app_out = "Unspecified"

\* snippet_with_applicability returned the default for a macro span whose
\* snippet the driver did not have, and Unspecified stayed
C14_Witness ==
    /\ SnippetReturned
    /\ op.span.source.tag = "Macro"
    /\ op.snippet = None
    /\ op.ret = ".."
    /\ op.app_in = "Unspecified"
    /\ op.app_out = "Unspecified"

\* C15 as stated: with the snippet unavailable and MachineApplicable passed
\* in the applicability becomes HasPlaceholders, and inside a macro with an
\* applicability other than Unspecified passed in it becomes MaybeIncorrect.
C15_PassedInRules ==
    /\ (/\ SnippetReturned
        /\ op.snippet = None
        /\ op.app_in = "MachineApplicable")
            => op.app_out = "HasPlaceholders"
    /\ (/\ op.name = "snippet_with_applicability"
        /\ op.span.source.tag = "Macro"
        /\ op.app_in # "Unspecified")
            => op.app_out = "MaybeIncorrect"

\* C15, amended: the placeholder rule applies to a span that is not inside
\* a macro; inside a macro an applicability other than Unspecified becomes
\* MaybeIncorrect, snippet or no snippet, and stays MaybeIncorrect.
C15_MacroRuleFirst ==
    /\ (/\ SnippetReturned
        /\ op.snippet = None
        /\ op.app_in = "MachineApplicable"
        /\ op.span.source.tag # "Macro")
            => op.app_out = "HasPlaceholders" /\ op.ret = ".."
    /\ (/\ op.name = "snippet_with_applicability"
        /\ op.span.source.tag = "Macro"
        /\ op.app_in # "Unspecified")
            => op.app_out = "MaybeIncorrect"

\* snippet_with_applicability returned the default for a file span with
\* MachineApplicable passed in: the applicability is now HasPlaceholders
C15_Witness ==
    /\ SnippetReturned
    /\ op.span.source.tag = "File"
    /\ op.snippet = None
    /\ op.ret = ".."
    /\ op.app_in = "MachineApplicable"
    /\ op.app_out = "HasPlaceholders"

\* C17: emit_lint that is neither macro-suppressed nor resolved to Allow
\* performs, in this order and each once: the driver's level lookup, the
\* construction of the diagnostic from (lint, node, message, span), the
\* caller's decoration, and the hand-over of the decorated diagnostic to
\* the driver's emit_diag; nothing is decorated after the hand-over.
C17_LookupDecorateEmit ==
    (/\ op.name = "emit_lint"
     /\ ~(op.lint.report_in_macro = "No" /\ op.span.source.tag = "Macro")
     /\ op.level # "Allow")
        => /\ Len(trace) = 3
           /\ trace[1] = [call |-> "lint_level_at", cx |-> op.cx,
                          lint |-> op.lint.name, node |-> op.node, ret |-> op.level]
           /\ trace[2] = [call |-> "decorate", cx |-> op.cx]
           /\ trace[3] = [call |-> "emit_diag", cx |-> op.cx,
                          diag |-> [lint |-> op.lint.name, node |-> op.node,
                                    msg |-> "msg", span |-> op.span,
                                    parts |-> op.decoration]]

\* emit_lint ran for an in-macro lint on a macro span at level Warn with a
\* closure that adds a note, and the driver received the diagnostic with
\* the note as the last of three calls
C17_Witness ==
    /\ op.name = "emit_lint"
    /\ op.lint.report_in_macro = "All"
    /\ op.span.source.tag = "Macro"
    /\ op.level = "Warn"
    /\ op.decoration = "note"
    /\ Len(trace) = 3
    /\ trace[3].call = "emit_diag"
    /\ trace[3].diag.parts = "note"

\* the last operation went through with_cx
ThroughWithCx == op.name \in {"with_cx", "snippet_with_applicability"}

\* C19: after any sequence of set_ast_cx and with_cx calls on a thread,
\* with_cx passes to its closure exactly the context given to the most
\* recent set_ast_cx on that thread; with_cx never changes the slot, and no
\* operation empties a slot that holds a context.
C19_MostRecentContext ==
    [][/\ ThroughWithCx' =>
            /\ AST_CX' = AST_CX
            /\ installed[op'.thread] # None =>
                    /\ ~panicked'[op'.thread]
                    /\ Len(trace') >= 1
                    /\ trace'[1] = [call |-> "closure", cx |-> installed[op'.thread]]
       /\ \A t \in Threads : AST_CX[t] # None => AST_CX'[t] # None]_vars

\* with_cx ran on t1, the only thread that installed anything, after cx2 had
\* replaced another context there, and its closure got cx2
C19_Witness ==
    /\ op.name = "with_cx"
    /\ op.thread = "t1"
    /\ reinstalled
    /\ installed["t2"] = None
    /\ installed["t1"] = "cx2"
    /\ AST_CX["t1"] = "cx2"
    /\ trace # <<>>
    /\ trace[1] = [call |-> "closure", cx |-> "cx2"]

\* C20: the slot is per thread: set_ast_cx on one thread is never observed
\* by with_cx on another, under any interleaving; with_cx on a thread sees
\* only what was installed on that thread and fails if nothing was.
C20_SlotPerThread ==
    /\ \A t \in Threads : AST_CX[t] = installed[t]
    /\ ThroughWithCx =>
            /\ installed[op.thread] = None => panicked[op.thread] /\ trace = <<>>
            /\ \A i \in 1..Len(trace) : trace[i].cx = installed[op.thread]

\* with_cx ran on t2, where cx2 was installed, while t1 held cx1: its
\* closure and the callback got cx2
C20_Witness ==
    /\ op.name = "with_cx"
    /\ op.thread = "t2"
    /\ installed = [t \in Threads |-> IF t = "t1" THEN "cx1" ELSE "cx2"]
    /\ Len(trace) = 2
    /\ trace[1].cx = "cx2"
    /\ trace[2].cx = "cx2"

-----------------------------------------------------------------------------
\* Properties of the literal conversions (SpecExpr)

RECURSIVE IsLiteralExpr(_, _)
\* node n is a literal, or a negation of a node that is
IsLiteralExpr(arena, n) ==
    \/ arena[n].tag \in LitExprTags
    \/ /\ arena[n].tag = "UnaryOp"
       /\ arena[n].kind = "Neg"
       /\ IsLiteralExpr(arena, arena[n].expr)

\* C5: for a unary negation e whose operand is classifiable as a literal,
\* try_from(ExprKind::UnaryOp(e)) is Ok(LitExprKind::UnaryOp(e)), and
\* ExprKind::from of that value is ExprKind::UnaryOp of the same node e.
C5_NegLiteralRoundTrip ==
    (/\ cur.tag = "UnaryOp"
     /\ nodes[cur.node].kind = "Neg"
     /\ IsLiteralExpr(nodes, nodes[cur.node].expr))
        => /\ lit = Ok([variant |-> "UnaryOp", node |-> cur.node])
           /\ back # NoExpr => back = [tag |-> "UnaryOp", node |-> cur.node]

\* the negation of a negated literal went through try_from and from
C5_Witness ==
    /\ cur.tag = "UnaryOp"
    /\ nodes[cur.node].kind = "Neg"
    /\ nodes[nodes[cur.node].expr].tag = "UnaryOp"
    /\ IsLiteralExpr(nodes, nodes[cur.node].expr)
    /\ lit.ok
    /\ back = cur

\* C6: try_from is Err(()) for every unary operation whose operand is not
\* classifiable as a literal and for every variant other than the five
\* literal variants and UnaryOp; every call returns a result.
C6_NonLiteralFails ==
    /\ cur # NoExpr => lit.called
    /\ (cur.tag = "UnaryOp" /\ ~IsLiteralExpr(nodes, nodes[cur.node].expr))
            => lit = Err
    /\ (cur # NoExpr /\ cur.tag \notin LitExprTags \cup {"UnaryOp"})
            => lit = Err

\* try_from was called on a negation of a negation of a non-literal
C6_Witness ==
    /\ cur.tag = "UnaryOp"
    /\ nodes[cur.node].kind = "Neg"
    /\ nodes[nodes[cur.node].expr].tag = "UnaryOp"
    /\ nodes[nodes[cur.node].expr].kind = "Neg"
    /\ ~IsLiteralExpr(nodes, nodes[cur.node].expr)
    /\ lit = Err

\* C18: try_from fails with Err(()) for every unary operation whose kind is
\* not Neg, even when its operand is a literal; a LitExprKind::UnaryOp it
\* returns is always a negation.
C18_OnlyNegAccepted ==
    /\ (cur.tag = "UnaryOp" /\ nodes[cur.node].kind # "Neg") => lit = Err
    /\ (lit.ok /\ lit.val.variant = "UnaryOp") => nodes[lit.val.node].kind = "Neg"

\* try_from was called on a Not over a literal and failed
C18_Witness ==
    /\ cur.tag = "UnaryOp"
    /\ nodes[cur.node].kind = "Not"
    /\ nodes[nodes[cur.node].expr].tag \in LitExprTags
    /\ lit = Err

\* C21: widening is total and narrowing is its left inverse: for every
\* LitExprKind value l (Int, Float, Str, Char, Bool or a validated UnaryOp)
\* ExprKind::from(l) is an ExprKind, and try_from of it is Ok with the
\* variant and the node of l.
C21_NarrowAfterWiden ==
    /\ (lit.ok /\ back # NoExpr) =>
            /\ back.tag \in LitExprTags \cup {"UnaryOp"}
            /\ back.node = lit.val.node
    /\ again.called =>
            /\ lit.ok
            /\ again = Ok([variant |-> lit.val.variant, node |-> lit.val.node])

\* a validated negation of a literal was widened and narrowed again to the
\* same UnaryOp value
C21_Witness ==
    /\ lit.ok
    /\ lit.val.variant = "UnaryOp"
    /\ nodes[lit.val.node].kind = "Neg"
    /\ back = [tag |-> "UnaryOp", node |-> lit.val.node]
    /\ again.called
    /\ again = lit

\* C12: the node type of every ExprKind variant has a golden size asserted
\* by test_expr_struct_size: every node of the arena has one.
C12_EveryNodeHasGoldenSize ==
    \A n \in 1..Len(nodes) : nodes[n].tag \in DOMAIN GoldenSizes

-----------------------------------------------------------------------------
\* Properties of spans (SpecSpan)

\* C7: is_from_file() is true whenever the provenance is File or Sugar, and
\* is_from_file() and is_from_macro() are never both true for one span.
C7_FileOrMacro ==
    /\ (fromFile # <<>> /\ span.source.tag \in {"File", "Sugar"}) => fromFile[1]
    /\ ~(fromFile = <<TRUE>> /\ fromMacro = <<TRUE>>)

\* both queries have run on a desugared span
C7_Witness ==
    /\ span.source.tag = "Sugar"
    /\ fromFile = <<TRUE>>
    /\ fromMacro = <<FALSE>>

\* C8: every span satisfies start <= end, after any sequence of set_start
\* and set_end calls with arbitrary arguments.
C8_StartLeEnd == span.start <= span.end

-----------------------------------------------------------------------------
\* Properties of the precedence table (SpecPrec)

LowestKinds == {"Closure", "Break", "Return", "Continue"}

\* the kinds whose values share Lit's band and lie above Lit
AboveLitKinds == {"Block", "Ctor", "Assign", "For", "Loop", "While", "Await"}

\* Closure, Break, Return and Continue lie strictly below every other kind
LowestBelowOthers ==
    (precA.kind \in LowestKinds /\ precB.kind \in PrecedenceKinds \ LowestKinds)
        => precA.value < precB.value

\* C9 as stated: Lit has the greatest value of all named kinds, and Closure,
\* Break, Return and Continue the smallest.
C9_LitGreatest ==
    /\ (precA.kind = "Lit" /\ precB.kind \in PrecedenceKinds \ {"Lit"})
            => precB.value < precA.value
    /\ LowestBelowOthers

\* C9: Lit lies in the greatest band: no named kind has a greater band, the
\* seven kinds that share Lit's band have greater values than Lit, every
\* other named kind is strictly below Lit; and Closure, Break, Return and
\* Continue have the smallest values.
C9_LitTopBand ==
    /\ (precA.kind = "Lit" /\ precB.kind \in PrecedenceKinds)
            => Band(precB.value) <= Band(precA.value)
    /\ (precA.kind = "Lit" /\ precB.kind \in AboveLitKinds)
            => /\ precB.value > precA.value
               /\ Band(precB.value) = Band(precA.value)
    /\ (precA.kind = "Lit" /\ precB.kind \in PrecedenceKinds \ (AboveLitKinds \cup {"Lit"}))
            => precB.value < precA.value
    /\ LowestBelowOthers

\* the precedences of a literal and of a block have been looked up
C9_Witness ==
    /\ precA.kind = "Lit"
    /\ precB.kind = "Block"
    /\ precB.value > precA.value

-----------------------------------------------------------------------------
\* Properties of one session's traversal (SpecPass)

\* the invocations of hook h of pass p on node i
InvocationsOf(p, h, i) ==
    { j \in 1..Len(invoked) :
        invoked[j] = [pass |-> p, hook |-> h, node |-> i] }

ImplementedBy(e) == e.hook \in passes[e.pass]

-----------------------------------------------------------------------------
\* Properties of the default hooks (SpecHook)

\* the calls made so far of hooks their pass left at the default
DefaultCalls == { j \in 1..Len(invoked) : ~ImplementedBy(invoked[j]) }

\* C11: every LintPass function taking &mut self has a default body that
\* is a no-op: a call of it returns, has no plugin-visible effect, hands no
\* diagnostic to a driver, calls no driver callback and leaves the context
\* slot alone; registered_lints alone has no default.
C11_DefaultHooksNoOp ==
    /\ DefaultedFns = Hooks
    /\ { f.name : f \in LintPassFns } \ DefaultedFns = {"registered_lints"}
    /\ \A j \in DefaultCalls : \A k \in 1..Len(effects) : effects[k] # invoked[j]
    /\ emitted = Len(invoked) - Cardinality(DefaultCalls)
    /\ trace = <<>>
    /\ \A t \in Threads : AST_CX[t] = None /\ ~panicked[t]

\* the default check_mod of a pass was called on a module and nothing
\* happened
C11_Witness ==
    /\ ast = <<"mod">>
    /\ passes["p1"] = {"check_static_item"}
    /\ invoked = << [pass |-> "p1", hook |-> "check_mod", node |-> 1],
                    [pass |-> "p1", hook |-> "check_item", node |-> 1] >>
    /\ effects = <<>>
    /\ emitted = 0

-----------------------------------------------------------------------------
\* Properties of the command line (SpecCli)

\* the arguments of argv that follow its first `--`, in order
AfterEscape ==
    IF \E i \in 1..Len(argv) : argv[i] = "--"
    THEN LET e == CHOOSE i \in 1..Len(argv) :
                    argv[i] = "--" /\ \A j \in 1..(i - 1) : argv[j] # "--"
         IN  [k \in 1..(Len(argv) - e) |-> argv[e + k]]
    ELSE <<>>

\* the subcommand tokens of argv that precede its first `--`
SelectedCommands ==
    { argv[i] : i \in { k \in 1..Len(argv) :
                          /\ argv[k] \in CommandTokens
                          /\ \A j \in 1..k : argv[j] # "--" } }

\* C16: the arguments after `--` are forwarded verbatim and in order as the
\* cargo_args of the selected command only: without a subcommand command is
\* None and the top-level check_args holds them; with check (or test-setup)
\* the command holds them and the top-level cargo_args is empty; without
\* `--` every cargo_args is empty.
C16_CargoArgsForwarded ==
    cli.state = "ok" =>
        /\ SelectedCommands = {} =>
                /\ cli.command.name = None
                /\ cli.command.cargo_args = <<>>
                /\ cli.check_args.cargo_args = AfterEscape
        /\ \A tok \in SelectedCommands :
                /\ cli.command.name = CommandOf(tok).variant
                /\ cli.check_args.cargo_args = <<>>
                /\ tok \in {"check", "test-setup"} => cli.command.cargo_args = AfterEscape
        /\ (\A i \in 1..Len(argv) : argv[i] # "--") =>
                /\ cli.command.cargo_args = <<>>
                /\ cli.check_args.cargo_args = <<>>

\* `check -- check ducks` was parsed: the check command holds the two words
\* after `--`, the second `check` among them, and the top level holds none
C16_Witness ==
    /\ argv = <<"check", "--", "check", "ducks">>
    /\ cli.state = "ok"
    /\ cli.command.name = "Check"
    /\ cli.command.cargo_args = <<"check", "ducks">>
    /\ cli.check_args.cargo_args = <<>>

====
